---- MODULE Spec2Model ----
(***************************************************************************)
(* Battery_Watcher_Free.py: a polling loop that samples the battery,       *)
(* classifies the sample as low / high / normal and notifies (Telegram    *)
(* message and Windows toast) when the status changes, at most once every *)
(* 10 seconds.                                                             *)
(*                                                                         *)
(* Conventions of the model                                                *)
(*  - Python's None / Optional[T] is the empty tuple <<>>, a present value *)
(*    x is <<x>>.  last_status alone uses the string "None", as its other  *)
(*    values are the status strings.                                       *)
(*  - Time is in seconds and the readings of the clock are exact values,   *)
(*    not roundings; the model draws whole numbers.  The code compares a   *)
(*    difference of two readings with 10, so a reading that comes any      *)
(*    positive time after a sleep of 10 behaves as one that comes 1 later. *)
(*    time.time() is the number of seconds since 1970-01-01, so every      *)
(*    reading is far above 10; the model keeps readings at or above        *)
(*    MinEpochTime, the smallest reading above 10.                         *)
(*  - bat.percent is a float; it is modelled in units of 1/PercentScale    *)
(*    percent so that int(round(.)) has halves to round.                   *)
(*  - The character U+2014 of the message is written EM_DASH, as module    *)
(*    text is ASCII.                                                       *)
(*  - print writes to sys.stdout, whose encoding may lack a character of   *)
(*    the text; print then raises UnicodeEncodeError.  Two non-ASCII       *)
(*    characters occur: U+2014 in the message of main, and U+63A5 (written *)
(*    KANJI) in the text of an exception that carries an operating-system  *)
(*    message in a non-Latin display language.                             *)
(***************************************************************************)
EXTENDS Integers, Sequences, FiniteSets, TLC

VARIABLES
    last_status,      \* main: last_status (line 122)
    last_notify,      \* main: last_notify (line 123)
    pc,               \* main: "poll" (line 128), "sleep" (line 148), "crashed"
    clock,            \* the reading time.time() would give now
    poll_seconds,     \* the argument of time.sleep (POLL_SECONDS in the code)
    HAVE_WIN11TOAST,  \* module flag set at import (lines 20-24)
    out,              \* what the poll cycle did (cleared when the sleep ends)
    prev,             \* the last two cycles that obtained a sample
    dropped,          \* a status change the rate limit suppressed, if any
    cycles,           \* how many times the loop has gone round (sleeps done)
    stdout_encoding,  \* the encoding of sys.stdout, fixed when Python starts
    call              \* a single function call and its result (SpecFunctions)

vars == << last_status, last_notify, pc, clock, poll_seconds, HAVE_WIN11TOAST,
           out, prev, dropped, cycles, stdout_encoding, call >>

mainVars == << last_status, last_notify, pc, clock, poll_seconds,
               HAVE_WIN11TOAST, out, prev, dropped, cycles, stdout_encoding >>

(***************************************************************************)
(* Bounds of the model                                                     *)
(***************************************************************************)
MaxPercent == 100
PercentScale == 10
MaxSecs == 7300
MaxNegSecs == 4
EdgeWidth == 3
MinEpochTime == 11
MaxCycles == 2
MaxSendDelay == 1
MaxOversleep == 1

(***************************************************************************)
(* Optional values                                                         *)
(***************************************************************************)
None == << >>

Some(x) == << x >>

IsNone(o) == o = << >>

Get(o) == o[1]

(***************************************************************************)
(* String formatting                                                       *)
(***************************************************************************)
Digit(d) ==
    CASE d = 0 -> "0" [] d = 1 -> "1" [] d = 2 -> "2" [] d = 3 -> "3"
      [] d = 4 -> "4" [] d = 5 -> "5" [] d = 6 -> "6" [] d = 7 -> "7"
      [] d = 8 -> "8" [] d = 9 -> "9"

RECURSIVE NatStr(_)
NatStr(n) == IF n < 10 THEN Digit(n) ELSE NatStr(n \div 10) \o Digit(n % 10)

\* format spec "d"
FmtD(n) == IF n < 0 THEN "-" \o NatStr(-n) ELSE NatStr(n)

\* format spec "02d" (zero-padded to width 2; the sign counts in the width)
Fmt02D(n) ==
    IF n < 0 THEN "-" \o NatStr(-n)
    ELSE IF n < 10 THEN "0" \o NatStr(n) ELSE NatStr(n)

\* Python's divmod(a, b) for b > 0: floor division and a non-negative remainder
divmod(a, b) == << a \div b, a % b >>

\* str(bool)
BoolStr(b) == IF b THEN "True" ELSE "False"

\* str.upper() on the three status strings
Upper(s) ==
    CASE s = "low" -> "LOW" [] s = "high" -> "HIGH" [] s = "normal" -> "NORMAL"

EM_DASH == "[U+2014]"

KANJI == "[U+63A5]"

(***************************************************************************)
(* print (lines 49, 93, 95, 108, 137)                                      *)
(***************************************************************************)
\* part occurs in text
Contains(text, part) ==
    \E i \in 1 .. (Len(text) - Len(part) + 1) :
        SubSeq(text, i, i + Len(part) - 1) = part

\* the non-ASCII characters of the texts the program prints
NonAscii == {EM_DASH, KANJI}

\* the characters of NonAscii an encoding has: cp1252 has U+2014 at 0x97,
\* cp932 has U+63A5 and not U+2014; ascii, cp437 and latin-1 have neither
Repertoire(enc) ==
    CASE enc = "utf-8"  -> NonAscii
      [] enc = "cp1252" -> {EM_DASH}
      [] enc = "cp932"  -> {KANJI}
      [] OTHER          -> {}

\* str.encode(enc) succeeds
CanEncode(enc, text) ==
    \A ch \in NonAscii \ Repertoire(enc) : ~Contains(text, ch)

\* print(text) with sys.stdout in encoding enc and errors = "strict"
print_line(enc, text) == [raised |-> ~CanEncode(enc, text)]

(***************************************************************************)
(* secs_to_hms (lines 30-43)                                               *)
(***************************************************************************)
POWER_TIME_UNKNOWN == -1

POWER_TIME_UNLIMITED == -2

ONE_WEEK == 60 * 60 * 24 * 7

secs_to_hms_week_inclusive(secs) ==
    IF IsNone(secs) THEN "unknown"
    ELSE IF Get(secs) \in {POWER_TIME_UNKNOWN, POWER_TIME_UNLIMITED} THEN "unknown"
    ELSE IF Get(secs) >= ONE_WEEK THEN "no driver estimate"
    ELSE LET m1 == divmod(Get(secs), 60)
             m2 == divmod(m1[1], 60)
         IN  FmtD(m2[1]) \o ":" \o Fmt02D(m2[2]) \o ":" \o Fmt02D(m1[2])

secs_to_hms(secs) ==
    IF IsNone(secs) THEN "unknown"
    ELSE IF Get(secs) \in {POWER_TIME_UNKNOWN, POWER_TIME_UNLIMITED} THEN "unknown"
    ELSE IF Get(secs) > ONE_WEEK THEN "no driver estimate"
    ELSE LET m1 == divmod(Get(secs), 60)      \* mm, ss = divmod(int(secs), 60)
             m2 == divmod(m1[1], 60)          \* hh, mm = divmod(mm, 60)
         IN  FmtD(m2[1]) \o ":" \o Fmt02D(m2[2]) \o ":" \o Fmt02D(m1[2])

(***************************************************************************)
(* check_battery_level (lines 46-68)                                       *)
(***************************************************************************)
\* int(round(x)) for x = n / scale >= 0: to the nearest integer, a half to
\* the even neighbour
PyRound(n, scale) ==
    LET q == n \div scale
        r == n % scale
    IN  IF 2 * r < scale THEN q
        ELSE IF 2 * r > scale THEN q + 1
        ELSE IF q % 2 = 0 THEN q ELSE q + 1

\* bool(x) for x in {None, False, True}
PyBool(o) == IF IsNone(o) THEN FALSE ELSE Get(o)

classify_exclusive(percent, plugged, low_threshold, high_threshold) ==
    IF ~plugged /\ percent < low_threshold THEN "low"
    ELSE IF plugged /\ percent > high_threshold THEN "high"
    ELSE "normal"

\* lines 56-61
classify(percent, plugged, low_threshold, high_threshold) ==
    IF ~plugged /\ percent <= low_threshold THEN "low"
    ELSE IF plugged /\ percent >= high_threshold THEN "high"
    ELSE "normal"

\* bat is what psutil.sensors_battery() returned: None, or a reading
check_battery_level(bat, low_threshold, high_threshold) ==
    IF IsNone(bat) THEN None
    ELSE LET percent == PyRound(Get(bat).percent, PercentScale)
             plugged == PyBool(Get(bat).power_plugged)
             human   == secs_to_hms(Some(Get(bat).secsleft))
         IN  Some([ status   |-> classify(percent, plugged,
                                          low_threshold, high_threshold),
                    percent  |-> percent,
                    plugged  |-> plugged,
                    time_hms |-> human ])

(***************************************************************************)
(* send_telegram_message (lines 74-97)                                     *)
(* net is what urlopen does if it is called: its outcome, "ok" or the kind *)
(* of exception it raises, and the text str(e) of that exception.  enc is  *)
(* the encoding of sys.stdout.  The result says whether the function       *)
(* raised, what it returned and how many network calls it made.            *)
(***************************************************************************)
URLOPEN_TIMEOUT == 10                                       \* line 89

NetOutcomes == {"ok", "http_error", "network_error", "timeout"}

NetEvents ==
    { [outcome |-> "ok", text |-> ""],
      [outcome |-> "http_error", text |-> "HTTP Error 404: Not Found"],
      [outcome |-> "network_error",
       text |-> "<urlopen error [Errno 11001] getaddrinfo failed>"],
      [outcome |-> "network_error",
       text |-> "<urlopen error [WinError 10061] " \o KANJI \o ">"],
      [outcome |-> "timeout", text |-> "<urlopen error timed out>"] }

send_telegram_message_and_guard(bot_token, chat_id, text, net, enc) ==
    IF bot_token = "" /\ chat_id = ""
    THEN [raised |-> FALSE, ret |-> FALSE, network_calls |-> 0]
    ELSE IF net.outcome = "ok"
    THEN [raised |-> FALSE, ret |-> TRUE, network_calls |-> 1]
    ELSE [raised |-> FALSE, ret |-> FALSE, network_calls |-> 1]

send_telegram_message(bot_token, chat_id, text, net, enc) ==
    IF bot_token = "" \/ chat_id = ""                       \* lines 75-76
    THEN [raised |-> FALSE, ret |-> FALSE, network_calls |-> 0]
    ELSE IF net.outcome = "ok"                              \* lines 88-91
    THEN [raised |-> FALSE, ret |-> TRUE, network_calls |-> 1]
    ELSE IF net.outcome = "http_error"                      \* lines 92-93
    THEN IF print_line(enc, "Telegram HTTP error: " \o net.text).raised
         THEN [raised |-> TRUE, ret |-> FALSE, network_calls |-> 1]
         ELSE [raised |-> FALSE, ret |-> FALSE, network_calls |-> 1] \* 97
    ELSE                                                    \* lines 94-95
         IF print_line(enc, "Telegram send failed: " \o net.text).raised
         THEN [raised |-> TRUE, ret |-> FALSE, network_calls |-> 1]
         ELSE [raised |-> FALSE, ret |-> FALSE, network_calls |-> 1] \* 97

(***************************************************************************)
(* send_windows_toast (lines 103-108)                                      *)
(* lib is what win11_toast does if it is called: "ok", or "error" with the *)
(* text str(e) of the exception.                                           *)
(***************************************************************************)
ToastOutcomes == {"ok", "error"}

ToastEvents ==
    { [outcome |-> "ok", text |-> ""],
      [outcome |-> "error", text |-> "toast unavailable"],
      [outcome |-> "error", text |-> "[WinError 5] " \o KANJI] }

send_windows_toast(have, title, msg, lib, enc) ==
    IF ~have                                                \* line 104
    THEN [raised |-> FALSE, called |-> FALSE, shown |-> FALSE]
    ELSE IF lib.outcome = "ok"                              \* lines 105-106
    THEN [raised |-> FALSE, called |-> TRUE, shown |-> TRUE]
    ELSE                                                    \* lines 107-108
         [raised |-> print_line(enc, "Toast failed: " \o lib.text).raised,
          called |-> TRUE, shown |-> FALSE]

(***************************************************************************)
(* main (lines 114-148)                                                    *)
(***************************************************************************)
LOW_THRESHOLD == 20

HIGH_THRESHOLD == 85

POLL_SECONDS == 60

BOT_TOKEN == "<bot token>"

CHAT_ID == "779056769"

\* lines 130-135
Message(info) ==
    "Battery " \o Upper(info.status) \o " " \o EM_DASH \o " "
    \o FmtD(info.percent) \o "% "
    \o "(plugged: " \o BoolStr(info.plugged) \o ") " \o EM_DASH \o " "
    \o info.time_hms

should_notify_no_status_check(status, lastStatus, now, lastNotify) ==
    now - lastNotify > 10

should_notify_inclusive(status, lastStatus, now, lastNotify) ==
    status # lastStatus /\ now - lastNotify >= 10

\* line 139
should_notify(status, lastStatus, now, lastNotify) ==
    status # lastStatus /\ now - lastNotify > 10

next_last_status_only_when_sent(status, lastStatus, sent) ==
    IF sent THEN status ELSE lastStatus

\* line 146
next_last_status(status, lastStatus, sent) == status

\* line 123
initial_last_notify(now) == 0

NoCycle ==
    [ sampled |-> FALSE, status |-> "None", msg |-> "", notified |-> FALSE,
      telegram |-> "not_called", telegram_ret |-> FALSE,
      toast |-> "not_called", printed |-> FALSE ]

NoSamples ==
    [ status |-> "None", notified |-> FALSE,
      prior_status |-> "None", prior_notified |-> FALSE ]

\* prev after a cycle that sampled status and did or did not notify
Record(status, notified) ==
    [ status |-> status, notified |-> notified,
      prior_status |-> prev.status, prior_notified |-> prev.notified ]

NoDrop == [status |-> "None", seen_again |-> FALSE]

\* what the cycle did to the toast channel
ToastEffect(t) ==
    IF ~t.called THEN "unavailable" ELSE IF t.shown THEN "shown" ELSE "failed"

\* line 128, with the thresholds of lines 115-116
Sample(bat) == check_battery_level(bat, LOW_THRESHOLD, HIGH_THRESHOLD)

\* the condition of line 139 for the sample info, evaluated now
Notifies(info) ==
    should_notify(info.status, last_status, clock, last_notify)

Seen(info) ==
    [ sampled |-> TRUE, status |-> info.status, msg |-> Message(info),
      notified |-> FALSE, telegram |-> "not_called", telegram_ret |-> FALSE,
      toast |-> "not_called", printed |-> TRUE ]

\* line 137 for the sample info
Printed(info) == ~print_line(stdout_encoding, Message(info)).raised

(***************************************************************************)
(* One pass through the loop body up to the sleep (lines 128-146), one     *)
(* action for each path through it.                                        *)
(*   bat  what psutil.sensors_battery() returns                            *)
(*   net  what urlopen does, lib what win11_toast does (if it is called)   *)
(*   d    seconds between the time.time() of line 139 and that of line 144 *)
(* The prefix of the chat text (U+1F50B and a space) is written            *)
(* "[battery] ".                                                           *)
(***************************************************************************)
\* line 129 is false: straight to line 148
main_poll_no_battery(bat) ==
    /\ pc = "poll"
    /\ IsNone(Sample(bat))
    /\ ~print_line(stdout_encoding, "No battery detected.").raised  \* line 49
    /\ out' = NoCycle
    /\ pc' = "sleep"
    /\ UNCHANGED << last_status, last_notify, clock, prev, dropped,
                    poll_seconds, HAVE_WIN11TOAST, cycles, stdout_encoding,
                    call >>

\* line 129 is true and print(msg) raises UnicodeEncodeError at line 137:
\* nothing catches it, main dies before line 139
main_poll_print_fails(bat) ==
    /\ pc = "poll"
    /\ ~IsNone(Sample(bat))
    /\ LET i == Get(Sample(bat))
       IN  /\ ~Printed(i)
           /\ out' = [Seen(i) EXCEPT !.printed = FALSE]
    /\ pc' = "crashed"
    /\ UNCHANGED << last_status, last_notify, clock, prev, dropped,
                    poll_seconds, HAVE_WIN11TOAST, cycles, stdout_encoding,
                    call >>

\* line 129 is true, line 139 is false: lines 130-137 and 146
main_poll_quiet(bat) ==
    /\ pc = "poll"
    /\ ~IsNone(Sample(bat))
    /\ LET i == Get(Sample(bat))
       IN  /\ Printed(i)
           /\ ~Notifies(i)
           /\ out' = Seen(i)
           /\ last_status' = next_last_status(i.status, last_status, FALSE)
           /\ pc' = "sleep"
           /\ prev' = Record(i.status, FALSE)
           /\ dropped' =
                IF i.status # last_status
                THEN [status |-> i.status, seen_again |-> FALSE]
                ELSE IF i.status = dropped.status
                THEN [dropped EXCEPT !.seen_again = TRUE]
                ELSE NoDrop
    /\ UNCHANGED << last_notify, clock, poll_seconds, HAVE_WIN11TOAST,
                    cycles, stdout_encoding, call >>

\* the time from the reading of line 139 to the reading of line 144: a send
\* that times out takes the timeout of line 89 at least
SendDelays(net) ==
    LET least == IF net.outcome = "timeout" THEN URLOPEN_TIMEOUT ELSE 0
    IN  least .. (least + MaxSendDelay)

\* what win11_toast can do in this run: without the library it is not called
NoToastEvent == [outcome |-> "not_called", text |-> ""]

ToastCalls == IF HAVE_WIN11TOAST THEN ToastEvents ELSE {NoToastEvent}

\* line 129 and line 139 are true: lines 130-146
main_poll_notify(bat) ==
    /\ pc = "poll"
    /\ ~IsNone(Sample(bat))
    /\ LET i   == Get(Sample(bat))
           msg == Message(i)
       IN  /\ Printed(i)
           /\ Notifies(i)
           /\ \E net \in NetEvents :
                LET tg  == IF BOT_TOKEN # "" /\ CHAT_ID # ""    \* line 140
                           THEN send_telegram_message(
                                    BOT_TOKEN, CHAT_ID, "[battery] " \o msg,
                                    net, stdout_encoding)
                           ELSE [raised |-> FALSE, ret |-> FALSE,
                                 network_calls |-> 0]
                    sent == [Seen(i) EXCEPT !.notified = TRUE,
                                            !.telegram =
                                                IF tg.network_calls > 0
                                                THEN net.outcome
                                                ELSE "not_called",
                                            !.telegram_ret = tg.ret]
                IN  IF tg.raised
                    THEN \* an exception leaves line 141: main dies there
                         /\ out' = sent
                         /\ pc' = "crashed"
                         /\ UNCHANGED << last_status, last_notify, clock,
                                         prev, dropped >>
                    ELSE \E lib \in ToastCalls :
                           LET tst == send_windows_toast(
                                          HAVE_WIN11TOAST, "Battery Watcher",
                                          msg, lib, stdout_encoding)
                           IN  IF tst.raised
                               THEN \* an exception leaves line 143
                                    /\ out' = [sent EXCEPT
                                                 !.toast = ToastEffect(tst)]
                                    /\ pc' = "crashed"
                                    /\ UNCHANGED << last_status, last_notify,
                                                    clock, prev, dropped >>
                               ELSE \E d \in SendDelays(net) :
                                    /\ out' = [sent EXCEPT
                                                 !.toast = ToastEffect(tst)]
                                    /\ clock' = clock + d
                                    /\ last_notify' = clock + d     \* line 144
                                    /\ last_status' =
                                         next_last_status(i.status,
                                                          last_status, TRUE)
                                    /\ pc' = "sleep"
                                    /\ prev' = Record(i.status, TRUE)
                                    /\ dropped' = NoDrop
    /\ UNCHANGED << poll_seconds, HAVE_WIN11TOAST, cycles, stdout_encoding,
                    call >>

\* line 148: time.sleep(poll_seconds) returns no earlier than poll_seconds
\* later; extra is the time by which the next reading of the clock (line
\* 139) comes after that: the overshoot of the sleep, a stopped process, and
\* lines 128-137.  Times are exact values in seconds; extra = 0 is a clock
\* that reads exactly poll_seconds later.
main_sleep(extra) ==
    /\ pc = "sleep"
    /\ cycles < MaxCycles
    /\ cycles' = cycles + 1
    /\ clock' = clock + poll_seconds + extra
    /\ pc' = "poll"
    /\ out' = NoCycle
    /\ UNCHANGED << last_status, last_notify, poll_seconds, HAVE_WIN11TOAST,
                    prev, dropped, stdout_encoding, call >>

(***************************************************************************)
(* Inputs                                                                  *)
(***************************************************************************)
Reading(p, g) ==
    Some([ percent |-> p * PercentScale, power_plugged |-> Some(g),
           secsleft |-> IF g THEN POWER_TIME_UNLIMITED ELSE 3661 ])

\* no battery, low, normal (unplugged), normal (plugged), high
BatteryReadings ==
    { None, Reading(15, FALSE), Reading(50, FALSE), Reading(15, TRUE),
      Reading(90, TRUE) }

\* UTF-8, an encoding with U+2014 and without U+63A5, one with neither and
\* one with U+63A5 and without U+2014
StdoutEncodings == {"utf-8", "cp1252", "ascii", "cp932"}

NoCall == [fn |-> "none", done |-> FALSE, args |-> << >>, ret |-> << >>]

MainInit(polls) ==
    /\ last_status = "None"                                   \* line 122
    /\ clock = MinEpochTime
    /\ last_notify = initial_last_notify(clock)               \* line 123
    /\ pc = "poll"
    /\ poll_seconds \in polls
    /\ HAVE_WIN11TOAST \in BOOLEAN
    /\ out = NoCycle
    /\ prev = NoSamples
    /\ dropped = NoDrop
    /\ cycles = 0
    /\ stdout_encoding \in StdoutEncodings
    /\ call = NoCall

MainNext ==
    \/ \E bat \in BatteryReadings : main_poll_no_battery(bat)
    \/ \E bat \in BatteryReadings : main_poll_print_fails(bat)
    \/ \E bat \in BatteryReadings : main_poll_quiet(bat)
    \/ \E bat \in BatteryReadings : main_poll_notify(bat)
    \/ \E extra \in 0 .. MaxOversleep : main_sleep(extra)

\* The program as written: time.sleep(60), a clock that only moves forward,
\* sends and sleeps that take their time.
Init == MainInit({POLL_SECONDS})

Next == MainNext

Spec == Init /\ [][Next]_vars

\* The loop with the poll interval as a parameter (pollSeconds of the
\* configuration): 10 is the interval at the edge of the rate limit.
PollChoices == {10, POLL_SECONDS}

InitAnyPoll == MainInit(PollChoices)

SpecAnyPoll == InitAnyPoll /\ [][MainNext]_vars

(***************************************************************************)
(* The functions on their own: the initial state holds one call with its   *)
(* arguments, the action for that function applies it.                     *)
(***************************************************************************)
SecsInputs ==
    {None} \cup
    { Some(n) : n \in ((-MaxNegSecs) .. MaxSecs)
                      \cup ((ONE_WEEK - EdgeWidth) .. (ONE_WEEK + EdgeWidth))
                      \cup {700000} }

ThresholdChoices == {0, LOW_THRESHOLD, 50, HIGH_THRESHOLD, MaxPercent}

SensorInputs ==
    {None} \cup
    { Some([ percent |-> n, power_plugged |-> g,
             secsleft |-> POWER_TIME_UNKNOWN ])
      : n \in 0 .. (MaxPercent * PercentScale),
        g \in {None, Some(FALSE), Some(TRUE)} }

TextInputs == {"", "hello"}

\* a call of fn with args that has not returned yet
Pending(fn, args) == [fn |-> fn, done |-> FALSE, args |-> args, ret |-> None]

CallInput ==
    \/ /\ \E secs \in SecsInputs : call = Pending("secs_to_hms", << secs >>)
       /\ stdout_encoding = "utf-8"
    \/ /\ \E bat \in SensorInputs, lo \in ThresholdChoices,
             hi \in ThresholdChoices :
               call = Pending("check_battery_level", << bat, lo, hi >>)
       /\ stdout_encoding = "utf-8"
    \/ /\ \E token \in {"", BOT_TOKEN}, chat \in {"", CHAT_ID},
             text \in TextInputs, net \in NetEvents :
               call = Pending("send_telegram_message",
                              << token, chat, text, net >>)
       /\ stdout_encoding \in StdoutEncodings
    \/ /\ \E have \in BOOLEAN, text \in TextInputs, lib \in ToastEvents :
               call = Pending("send_windows_toast",
                              << have, "Battery Watcher", text, lib >>)
       /\ stdout_encoding \in StdoutEncodings

Return(value) ==
    /\ call' = [call EXCEPT !.done = TRUE, !.ret = Some(value)]
    /\ UNCHANGED mainVars

call_secs_to_hms ==
    /\ call.fn = "secs_to_hms" /\ ~call.done
    /\ Return(secs_to_hms(call.args[1]))

call_check_battery_level ==
    /\ call.fn = "check_battery_level" /\ ~call.done
    /\ Return(check_battery_level(call.args[1], call.args[2], call.args[3]))

call_send_telegram_message ==
    /\ call.fn = "send_telegram_message" /\ ~call.done
    /\ Return(send_telegram_message(call.args[1], call.args[2], call.args[3],
                                    call.args[4], stdout_encoding))

call_send_windows_toast ==
    /\ call.fn = "send_windows_toast" /\ ~call.done
    /\ Return(send_windows_toast(call.args[1], call.args[2], call.args[3],
                                 call.args[4], stdout_encoding))

InitFunctions ==
    /\ last_status = "None"
    /\ clock = MinEpochTime
    /\ last_notify = initial_last_notify(clock)
    /\ pc = "poll"
    /\ poll_seconds = POLL_SECONDS
    /\ HAVE_WIN11TOAST = FALSE
    /\ out = NoCycle
    /\ prev = NoSamples
    /\ dropped = NoDrop
    /\ cycles = 0
    /\ CallInput

NextFunctions ==
    \/ call_secs_to_hms
    \/ call_check_battery_level
    \/ call_send_telegram_message
    \/ call_send_windows_toast

SpecFunctions == InitFunctions /\ [][NextFunctions]_vars

(***************************************************************************)
(* Properties                                                              *)
(***************************************************************************)
\* a step of the loop body (lines 128-146) has just been taken
PollStep == pc = "poll" /\ pc' # "poll"

\* C1: two consecutive cycles that obtained a sample and saw the same status
\* never both send a notification, whatever the time between them (cycles
\* without a battery in between do not count).
C1_NoRepeatForSameStatus ==
    (prev.prior_status # "None" /\ prev.status = prev.prior_status)
        => ~(prev.notified /\ prev.prior_notified)

\* the first of two same-status cycles notified, the second did not although
\* more than 10 seconds had passed since the notification
C1_Witness ==
    /\ pc = "sleep" /\ out.sampled /\ ~out.notified
    /\ prev.status = prev.prior_status /\ prev.prior_notified
    /\ ~prev.notified
    /\ clock - last_notify > 10

\* C2: a poll cycle invokes the notification channels only if the time read
\* at line 139 minus last_notify is strictly greater than 10, also when the
\* sampled status differs from last_status.
C2_RateLimit ==
    [][ (PollStep /\ (out'.notified \/ out'.telegram # "not_called"
                      \/ out'.toast # "not_called"))
            => clock - last_notify > 10 ]_vars

\* a status change seen exactly 10 seconds after last_notify was set: no send
C2_Witness ==
    /\ pc = "sleep" /\ out.sampled /\ ~out.notified
    /\ prev.prior_notified /\ prev.status # prev.prior_status
    /\ out.telegram = "not_called" /\ out.toast = "not_called"
    /\ clock - last_notify = 10

\* C3: from last_status = None and last_notify = 0, the first cycle that
\* obtains a sample (after any number of cycles without a battery) attempts
\* a notification, whatever the sampled status.
C3_FirstSampleNotifies ==
    [][ (PollStep /\ prev.status = "None" /\ out'.sampled)
            => /\ out'.notified
               /\ out'.telegram \in NetOutcomes
               /\ out'.toast # "not_called" ]_vars

\* C4: with time.sleep(60) and a clock that does not go back, every cycle
\* whose sampled status differs from last_status notifies in that cycle.
C4_EveryChangeNotifies ==
    [][ (PollStep /\ out'.sampled /\ out'.status # last_status)
            => out'.notified ]_vars

\* C5: check_battery_level gives "low" exactly when not plugged and
\* percent <= low_threshold, "high" exactly when plugged and
\* percent >= high_threshold, "normal" otherwise; the two conditions never
\* hold together, so testing "high" first gives the same status.
C5_Classification ==
    (call.fn = "check_battery_level" /\ call.done /\ ~IsNone(call.args[1]))
        => LET info   == Get(Get(call.ret))
               isLow  == ~info.plugged /\ info.percent <= call.args[2]
               isHigh == info.plugged /\ info.percent >= call.args[3]
           IN  /\ info.percent \in 0 .. MaxPercent
               /\ (info.status = "low") <=> isLow
               /\ (info.status = "high") <=> isHigh
               /\ (info.status = "normal") <=> (~isLow /\ ~isHigh)
               /\ ~(isLow /\ isHigh)
               /\ info.status = IF isHigh THEN "high"
                                ELSE IF isLow THEN "low" ELSE "normal"

\* the inclusive boundary: percent = low_threshold, not plugged, gives "low"
C5_Witness ==
    /\ call.fn = "check_battery_level" /\ call.done
    /\ ~IsNone(call.args[1])
    /\ Get(Get(call.ret)).percent = call.args[2]
    /\ call.args[2] = 20
    /\ ~Get(Get(call.ret)).plugged
    /\ Get(Get(call.ret)).status = "low"

\* C6: failures of the channels are contained.  send_telegram_message
\* returns False and does not raise on an HTTP error, a network error or a
\* timeout; send_windows_toast does not raise and does nothing without the
\* toast library.  So a notifying cycle, whatever the outcome of the chat
\* send, still attempts the toast, sets last_notify and last_status, and
\* goes on to sleep: a cycle that reached the sends does not end main.
C6_FailuresContained ==
    /\ out.notified => pc \in {"poll", "sleep"}
    /\ (pc = "sleep" /\ out.notified)
           => /\ out.telegram \in NetOutcomes
              /\ out.telegram_ret = (out.telegram = "ok")
              /\ out.toast \in {"unavailable", "shown", "failed"}
              /\ (~HAVE_WIN11TOAST <=> out.toast = "unavailable")
              /\ last_status = out.status
              /\ last_notify = clock

\* C7: send_telegram_message with an empty bot token or an empty chat id
\* returns False without any network call, for every text.
C7_EmptyCredentials ==
    (call.fn = "send_telegram_message" /\ call.done
     /\ (call.args[1] = "" \/ call.args[2] = ""))
        => /\ ~Get(call.ret).raised
           /\ Get(call.ret).ret = FALSE
           /\ Get(call.ret).network_calls = 0

\* only the chat id is empty, and the network would have answered
C7_Witness ==
    /\ call.fn = "send_telegram_message" /\ call.done
    /\ call.args[1] # "" /\ call.args[2] = "" /\ call.args[4].outcome = "ok"
    /\ Get(call.ret).ret = FALSE

\* C8: secs_to_hms renders None, -1 and -2 as "unknown", a value above
\* 604800 as "no driver estimate", and any s in 0..604800 as H:MM:SS with
\* H = s div 3600, MM = (s div 60) mod 60, SS = s mod 60.
C8_SecsToHms ==
    (call.fn = "secs_to_hms" /\ call.done)
        => LET secs == call.args[1]
               r    == Get(call.ret)
           IN  IF IsNone(secs) THEN r = "unknown"
               ELSE LET s == Get(secs)
                    IN  /\ s \in {-1, -2} => r = "unknown"
                        /\ s > 604800 => r = "no driver estimate"
                        /\ s \in 0 .. 604800 =>
                              r = FmtD(s \div 3600) \o ":"
                                  \o Fmt02D((s \div 60) % 60) \o ":"
                                  \o Fmt02D(s % 60)
                        /\ s = 3661 => r = "1:01:01"
                        /\ s = 59 => r = "0:00:59"
                        /\ s = 3600 => r = "1:00:00"
                        /\ s = 604800 => r = "168:00:00"

\* exactly one week is still a duration
C8_Witness ==
    /\ call.fn = "secs_to_hms" /\ call.done
    /\ call.args[1] = Some(604800)
    /\ Get(call.ret) = "168:00:00"

\* C9: a cycle without a battery sends nothing, leaves last_status and
\* last_notify as they were and goes to sleep; a cycle with a sample sets
\* last_status to the sample's status whether or not it notified.
C9_FrameOfACycle ==
    [][ PollStep
          => /\ ~out'.sampled
                   => /\ ~out'.notified
                      /\ out'.telegram = "not_called"
                      /\ out'.toast = "not_called"
                      /\ last_status' = last_status
                      /\ last_notify' = last_notify
                      /\ pc' = "sleep"
             /\ out'.sampled => last_status' = out'.status ]_vars

\* C10: a status change that the rate limit suppresses (a cycle that reaches
\* line 139 with a new status at most 10 seconds after last_notify) is
\* dropped: the cycle sends nothing and still sets last_status to the new status, and no later cycle notifies for
\* that status while it stays the sampled status, even after the 10 seconds.
C10_DroppedNotDeferred ==
    [][ (PollStep /\ out'.sampled)
          => /\ (out'.printed /\ out'.status # last_status
                 /\ clock - last_notify <= 10)
                   => /\ ~out'.notified
                      /\ last_status' = out'.status
             /\ (dropped.status # "None" /\ out'.status = dropped.status)
                   => ~out'.notified ]_vars

\* the suppressed status was sampled again after the window, and not sent
C10_Witness ==
    /\ pc = "sleep" /\ out.sampled /\ ~out.notified
    /\ dropped.status = out.status /\ dropped.seen_again
    /\ clock - last_notify > 10

====
